---- MODULE Spec2Model ----
(***************************************************************************)
(* Model of aws_lambda_powertools/utilities/parser/parser.py:              *)
(* parse, _chained_parse and chained_parse.                                *)
(*                                                                         *)
(* Values are tagged tuples:                                               *)
(*   <<"dict", id>>     a raw dynamic structure (Dict[str, Any])           *)
(*   <<"text", id>>     a payload in serialized-text form (str)            *)
(*   <<"inst", id>>     an instance of the caller's model                  *)
(*   <<"raw", id>>      a RawEvent instance                                *)
(*   <<"str", id>>      a bare string returned unvalidated by an envelope  *)
(*   <<"list", s>>      a Python list holding the sequence s               *)
(*   <<"field", id, k>> the k-th (name, value) pair got by iterating a     *)
(*                      pydantic instance                                  *)
(*   <<"char", id, k>>  the k-th character got by iterating a string       *)
(* Outcomes of a call are <<"return", v>> or <<"raise", errorName>>.       *)
(***************************************************************************)
EXTENDS Integers, Sequences, FiniteSets, TLC

\* Longest envelope list handed to chained_parse.
MaxChain == 2
\* Longest sequence one envelope extracts, and largest working set.
MaxRecords == 2
\* Most calls of parse one run makes.
MaxCalls == 3
\* Number of fields of the caller's model (what iterating an instance yields).
NumFields == 2
\* Length of a bare string (what iterating it yields).
StrLen == 2

VARIABLES
    op,         \* entry point called: "parse" or "chained_parse"
    event,      \* the event argument
    model,      \* the model argument
    envelopes,  \* chained_parse: the envelopes argument; parse: <<envelope>>
    pc,         \* position in the call
    depth,      \* number of _chained_parse frames on the stack
    remaining,  \* the envelopes argument of the current frame
    events,     \* the events argument of the current frame
    idx,        \* position of the for loop / comprehension in events
    acc,        \* dict_events (recursive case) or res (base case)
    base,       \* what the base-case frame produced, <<"none">> before
    ret,        \* the list being returned up the stack
    outcome,    \* what the entry point produced, <<"none">> while running
    calls       \* history of the calls of parse, oldest first

vars == <<op, event, model, envelopes, pc, depth, remaining, events, idx,
          acc, base, ret, outcome, calls>>

Return(v) == <<"return", v>>
Raise(e) == <<"raise", e>>
List(s) == <<"list", s>>
None == <<"none">>

IsReturn(r) == r[1] = "return"
IsRaise(r) == r[1] = "raise"
Raises(r, e) == r[1] = "raise" /\ r[2] = e

SeqUpTo(S, n) == UNION {[1..m -> S] : m \in 0..n}

\* ---------------------------------------------------------------------------
\* External collaborators: models and envelopes.

\* Values that can be passed as the model argument.
Models == {"Model", "NotAModel"}

\* Values that can be passed as an envelope:
\*   "None"        no envelope (falsy)
\*   "NonCallable" a truthy value that is not callable
\*   "NoParse"     a callable whose instances have no parse method
\*   "Envelope"    an envelope honouring the contract
\*   "LaxEnvelope" an envelope that returns non-dict items unvalidated
EnvelopeValues == {"None", "NonCallable", "NoParse", "Envelope", "LaxEnvelope"}

\* What a sub-structure of a payload can be.
Items == {"conforming", "nonconforming", "string"}

\* What an envelope finds in a payload: nothing, one item, or a sequence.
Extractions ==
    {<<"absent">>} \cup {<<"one", it>> : it \in Items}
        \cup {<<"many", its>> : its \in SeqUpTo(Items, MaxRecords)}

isinstance_str(v) == v[1] = "text"
isinstance_List(v) == v[1] = "list"
isinstance_RawEvent(v) == v[1] = "raw"

\* RawEvent.as_raw_dict
as_raw_dict(v) == <<"dict", v[2]>>

\* model.parse_obj(data), data being an item of the given kind
parse_obj(m, item, id) ==
    CASE m = "NotAModel" -> Raise("AttributeError")
      [] m = "RawEvent" ->
            IF item \in {"conforming", "nonconforming"}
            THEN Return(<<"raw", id>>) ELSE Raise("ValidationError")
      [] OTHER ->
            IF item = "conforming"
            THEN Return(<<"inst", id>>) ELSE Raise("ValidationError")

\* model.parse_raw(text), the text deserializing to an item of the given kind
\* ("string": it does not deserialize to an object)
parse_raw(m, item, id) ==
    CASE m = "NotAModel" -> Raise("AttributeError")
      [] item = "string" -> Raise("ValidationError")
      [] OTHER -> parse_obj(m, item, id)

\* One item validated by an envelope.
EnvelopeValidate(e, m, item, id) ==
    IF e = "LaxEnvelope" /\ item = "string"
    THEN Return(<<"str", id>>)
    ELSE parse_obj(m, item, id)

\* envelope().parse(data=event, model=model); x is what the envelope finds in
\* the event, c numbers the call.
EnvelopeParse(e, m, x, c) ==
    CASE e = "NoParse" -> Raise("AttributeError")
      [] x[1] = "absent" -> Raise("ValidationError")
      [] x[1] = "one" -> EnvelopeValidate(e, m, x[2], <<c, 1>>)
      [] OTHER ->
            LET rs == [j \in 1..Len(x[2]) |->
                          EnvelopeValidate(e, m, x[2][j], <<c, j>>)]
                bad == {j \in 1..Len(rs) : IsRaise(rs[j])}
            IN  IF bad = {}
                THEN Return(List([j \in 1..Len(rs) |-> rs[j][2]]))
                ELSE rs[CHOOSE j \in bad : \A k \in bad : j <= k]

\* What the collaborators can find in an event when parse is called with it.
Answers(ev, e) ==
    CASE e \in {"Envelope", "LaxEnvelope"} -> Extractions
      [] e = "NoParse" -> {<<"absent">>}
      [] isinstance_str(ev) -> {<<"one", it>> : it \in Items}
      [] OTHER -> {<<"one", it>> : it \in {"conforming", "nonconforming"}}

\* ---------------------------------------------------------------------------
\* parse

truthy(e) == e # "None"
callable(e) == e \in {"NoParse", "Envelope", "LaxEnvelope"}

\* The body of the try block that parse enters.
ParseTry(ev, m, e, x, c) ==
    IF truthy(e) /\ callable(e)
    THEN EnvelopeParse(e, m, x, c)
    ELSE IF isinstance_str(ev)
         THEN parse_raw(m, x[2], ev[2])
         ELSE parse_obj(m, x[2], ev[2])

\* parse with handlers that catch every exception, not AttributeError alone.
parseCatchAll(ev, m, e, x, c) ==
    LET r == ParseTry(ev, m, e, x, c) IN
    IF truthy(e) /\ callable(e)
    THEN IF IsRaise(r) THEN Raise("InvalidEnvelopeError") ELSE r
    ELSE IF IsRaise(r) THEN Raise("InvalidModelTypeError") ELSE r

\* Lines 161-176.
parse(ev, m, e, x, c) ==
    LET r == ParseTry(ev, m, e, x, c) IN
    IF truthy(e) /\ callable(e)
    THEN IF Raises(r, "AttributeError")
         THEN Raise("InvalidEnvelopeError") ELSE r
    ELSE IF Raises(r, "AttributeError")
         THEN Raise("InvalidModelTypeError") ELSE r

\* The record of one call of parse kept in calls.
Call(stage, ev, m, e, x, c) ==
    [stage |-> stage, model |-> m, envelope |-> e,
     inner |-> ParseTry(ev, m, e, x, c), result |-> parse(ev, m, e, x, c)]

\* ---------------------------------------------------------------------------
\* _chained_parse

\* Whether iter(v) is defined. The fields of the caller's model are taken to
\* hold numbers, which are not iterable.
Iterable(v) == v[1] \in {"list", "inst", "raw", "str", "field", "name", "char"}

\* iter(v): what iterating a value yields. A pydantic instance yields one
\* (name, value) pair per field, a pair its two members, a string its
\* characters, a character itself.
Iter(v) ==
    CASE v[1] = "list" -> v[2]
      [] v[1] = "inst" -> [k \in 1..NumFields |-> <<"field", v[2], k>>]
      [] v[1] = "raw" -> << <<"field", v[2], 1>> >>
      [] v[1] = "str" -> [k \in 1..StrLen |-> <<"char", v[2], k>>]
      [] v[1] = "field" -> << <<"name", v[2], v[3]>>, <<"value", v[2], v[3]>> >>
      [] v[1] = "name" -> [k \in 1..StrLen |-> <<"char", v[2] \o <<v[3]>>, k>>]
      [] OTHER -> <<v>>

RECURSIVE Concat(_)
Concat(s) == IF s = <<>> THEN <<>> ELSE Iter(Head(s)) \o Concat(Tail(s))

\* list(itertools.chain.from_iterable(s))
chain_from_iterable(s) ==
    IF \A j \in 1..Len(s) : Iterable(s[j])
    THEN Return(List(Concat(s)))
    ELSE Raise("TypeError")

\* Lines 193-201: what one parsed_event adds to dict_events, or the error.
Unwrap(parsed_event) ==
    IF isinstance_RawEvent(parsed_event)
    THEN Return(<<as_raw_dict(parsed_event)>>)
    ELSE IF isinstance_List(parsed_event)
    THEN IF Len(parsed_event[2]) = 0
         THEN Raise("IndexError")
         ELSE IF isinstance_RawEvent(parsed_event[2][1])
         THEN IF \A j \in 1..Len(parsed_event[2]) :
                     isinstance_RawEvent(parsed_event[2][j])
              THEN Return([j \in 1..Len(parsed_event[2]) |->
                              as_raw_dict(parsed_event[2][j])])
              ELSE Raise("AttributeError")
         ELSE Raise("InvalidEnvelopeChaining")
    ELSE Raise("InvalidEnvelopeChaining")

\* The base case returning res as it is, never flattening.
BaseAggregateNoFlatten(res) ==
    IF Len(res) = 0 THEN Raise("IndexError") ELSE Return(List(res))

\* Lines 185-187: what the base case returns for its list res.
BaseAggregate(res) ==
    IF Len(res) = 0 THEN Raise("IndexError")
    ELSE IF isinstance_List(res[1])
    THEN chain_from_iterable(res)
    ELSE Return(List(res))

\* An intermediate stage parsing with the caller's model.
IntermediateModelReal(m) == m

\* Line 192: the model an intermediate stage parses with.
IntermediateModel(m) == "RawEvent"

\* Line 203: what a frame returns, given what its recursive call returned.
FrameReturn(r) == chain_from_iterable(r)

\* ---------------------------------------------------------------------------
\* The state machine.

Init ==
    /\ op \in {"parse", "chained_parse"}
    /\ event \in {<<"dict", <<0, 1>>>>, <<"text", <<0, 1>>>>}
    /\ model \in Models
    /\ envelopes \in SeqUpTo(EnvelopeValues, MaxChain)
    /\ op = "parse" => Len(envelopes) = 1
    /\ pc = "start"
    /\ depth = 0
    /\ remaining = <<>>
    /\ events = <<>>
    /\ idx = 1
    /\ acc = <<>>
    /\ base = None
    /\ ret = <<>>
    /\ outcome = None
    /\ calls = <<>>

Finish(r) ==
    /\ outcome' = r
    /\ pc' = "done"

\* parse(event, model, envelope)
Parse ==
    /\ op = "parse" /\ pc = "start"
    /\ \E x \in Answers(event, envelopes[1]) :
          /\ calls' = Append(calls, Call(0, event, model, envelopes[1], x, 1))
          /\ Finish(parse(event, model, envelopes[1], x, 1))
    /\ UNCHANGED <<op, event, model, envelopes, depth, remaining, events,
                   idx, acc, base, ret>>

\* chained_parse(event, model, envelopes): line 207
ChainedParse ==
    /\ op = "chained_parse" /\ pc = "start"
    /\ events' = <<event>>
    /\ remaining' = envelopes
    /\ depth' = 1
    /\ pc' = "enter"
    /\ UNCHANGED <<op, event, model, envelopes, idx, acc, base, ret, outcome,
                   calls>>

\* _chained_parse, lines 181-183 and 189-190: which case the frame is in
Enter ==
    /\ pc = "enter"
    /\ IF Len(remaining) = 1
       THEN /\ pc' = "base" /\ outcome' = outcome
       ELSE IF Len(remaining) = 0
       THEN Finish(Raise("IndexError"))
       ELSE /\ pc' = "loop" /\ outcome' = outcome
    /\ idx' = 1
    /\ acc' = <<>>
    /\ UNCHANGED <<op, event, model, envelopes, depth, remaining, events,
                   base, ret, calls>>

\* _chained_parse, lines 191-201: one iteration of the for loop
LoopEvent ==
    /\ pc = "loop" /\ idx <= Len(events)
    /\ Len(calls) < MaxCalls
    /\ \E x \in Answers(events[idx], remaining[1]) :
          LET c == Len(calls) + 1
              m == IntermediateModel(model)
              r == parse(events[idx], m, remaining[1], x, c)
              u == IF IsReturn(r) THEN Unwrap(r[2]) ELSE r
          IN  /\ IsReturn(u) => Len(acc) + Len(u[2]) <= MaxRecords
              /\ calls' = Append(calls,
                                 Call(depth, events[idx], m, remaining[1], x, c))
              /\ IF IsReturn(u)
                 THEN /\ acc' = acc \o u[2]
                      /\ idx' = idx + 1
                      /\ UNCHANGED <<pc, outcome>>
                 ELSE /\ Finish(u)
                      /\ UNCHANGED <<acc, idx>>
    /\ UNCHANGED <<op, event, model, envelopes, depth, remaining, events,
                   base, ret>>

\* _chained_parse, line 203: the recursive call
Recurse ==
    /\ pc = "loop" /\ idx > Len(events)
    /\ events' = acc
    /\ remaining' = Tail(remaining)
    /\ depth' = depth + 1
    /\ pc' = "enter"
    /\ UNCHANGED <<op, event, model, envelopes, idx, acc, base, ret, outcome,
                   calls>>

\* _chained_parse, line 184: one element of the list comprehension
BaseEvent ==
    /\ pc = "base" /\ idx <= Len(events)
    /\ Len(calls) < MaxCalls
    /\ \E x \in Answers(events[idx], remaining[1]) :
          LET c == Len(calls) + 1
              r == parse(events[idx], model, remaining[1], x, c)
          IN  /\ calls' = Append(calls,
                                 Call(depth, events[idx], model, remaining[1],
                                      x, c))
              /\ IF IsReturn(r)
                 THEN /\ acc' = Append(acc, r[2])
                      /\ idx' = idx + 1
                      /\ UNCHANGED <<pc, outcome>>
                 ELSE /\ Finish(r)
                      /\ UNCHANGED <<acc, idx>>
    /\ UNCHANGED <<op, event, model, envelopes, depth, remaining, events,
                   base, ret>>

\* _chained_parse, lines 185-187: the base case returns
BaseReturn ==
    /\ pc = "base" /\ idx > Len(events)
    /\ base' = BaseAggregate(acc)
    /\ IF IsRaise(base')
       THEN /\ Finish(base')
            /\ UNCHANGED <<ret, depth>>
       ELSE /\ ret' = base'[2][2]
            /\ depth' = depth - 1
            /\ IF depth' = 0
               THEN Finish(Return(List(ret')))
               ELSE /\ pc' = "unwind" /\ outcome' = outcome
    /\ UNCHANGED <<op, event, model, envelopes, remaining, events, idx, acc,
                   calls>>

\* _chained_parse, line 203: a frame returns what its recursive call returned
Unwind ==
    /\ pc = "unwind"
    /\ LET r == FrameReturn(ret) IN
       IF IsRaise(r)
       THEN /\ Finish(r)
            /\ UNCHANGED <<ret, depth>>
       ELSE /\ ret' = r[2][2]
            /\ depth' = depth - 1
            /\ IF depth' = 0
               THEN Finish(Return(List(ret')))
               ELSE /\ pc' = "unwind" /\ outcome' = outcome
    /\ UNCHANGED <<op, event, model, envelopes, remaining, events, idx, acc,
                   base, calls>>

Next ==
    \/ Parse
    \/ ChainedParse
    \/ Enter
    \/ LoopEvent
    \/ Recurse
    \/ BaseEvent
    \/ BaseReturn
    \/ Unwind

Spec == Init /\ [][Next]_vars

\* ---------------------------------------------------------------------------
\* Properties.

Done == pc = "done"
Chained == op = "chained_parse"
NumEnvelopes == Len(envelopes)

\* A result a non-final stage accepts by its contract: one RawEvent or a
\* sequence of RawEvents.
RawShape(v) ==
    \/ isinstance_RawEvent(v)
    \/ /\ isinstance_List(v)
       /\ \A j \in 1..Len(v[2]) : isinstance_RawEvent(v[2][j])

\* The sequences held by the lists vs[from..], joined in order.
RECURSIVE Join(_, _)
Join(vs, from) ==
    IF from > Len(vs) THEN <<>> ELSE vs[from][2] \o Join(vs, from + 1)

\* What each event's result contributes to the aggregate: its elements when
\* it is a sequence, itself otherwise.
RECURSIVE PerEvent(_)
PerEvent(res) ==
    IF res = <<>> THEN <<>>
    ELSE (IF isinstance_List(Head(res)) THEN Head(res)[2] ELSE <<Head(res)>>)
            \o PerEvent(Tail(res))

\* The values returned by the calls, oldest first (calls that all returned).
Results == [j \in 1..Len(calls) |-> calls[j].result[2]]

\* C1: with two contract-honouring envelopes, E1 unwrapping the payload into
\* N raw sub-events and E2 unwrapping each of them into M instances of the
\* model, chained_parse returns exactly those N*M instances, in sub-event
\* order then in E2's order.
C1_FanOutProduct ==
    (/\ Chained /\ Done /\ NumEnvelopes = 2 /\ model = "Model"
     /\ envelopes = <<"Envelope", "Envelope">>
     /\ Len(calls) >= 2
     /\ \A j \in 1..Len(calls) : IsReturn(calls[j].result)
     /\ isinstance_List(calls[1].result[2])
     /\ Len(calls) = Len(calls[1].result[2][2]) + 1
     /\ \E M \in 1..MaxRecords : \A j \in 2..Len(calls) :
           /\ isinstance_List(calls[j].result[2])
           /\ Len(calls[j].result[2][2]) = M)
    => /\ outcome = Return(List(Join(Results, 2)))
       /\ \A j \in 1..Len(outcome[2][2]) : outcome[2][2][j][1] = "inst"

\* C2: parse with an envelope value that is not an Envelope (a callable
\* without parse, or a non-callable value) raises InvalidEnvelopeError.
C2_NonEnvelopeRaises ==
    (op = "parse" /\ Done /\ envelopes[1] \in {"NoParse", "NonCallable"})
    => outcome = Raise("InvalidEnvelopeError")

\* C3: when a non-final envelope returns something that is neither a RawEvent
\* nor a sequence of RawEvents, chained_parse fails with
\* InvalidEnvelopeChaining and makes no later call.
C3_BadShapeRaisesChaining ==
    \A j \in 1..Len(calls) :
        (/\ Chained
         /\ calls[j].stage < NumEnvelopes
         /\ IsReturn(calls[j].result)
         /\ ~RawShape(calls[j].result[2]))
        => /\ j = Len(calls)
           /\ outcome = Raise("InvalidEnvelopeChaining")

\* What chained_parse with one envelope owes for an outcome r of parse: the
\* same error, the same sequence, or the one-element sequence of the value.
Degenerate(r) ==
    IF IsRaise(r) THEN r
    ELSE IF isinstance_List(r[2]) THEN r
    ELSE Return(List(<<r[2]>>))

\* C4: chained_parse(P, S, [E1]) is parse(P, S, envelope=E1) up to wrapping a
\* single value in a one-element sequence.
C4_SingleEnvelopeIsParse ==
    (Chained /\ Done /\ NumEnvelopes = 1)
    => \E x \in Answers(event, envelopes[1]) :
          /\ calls = <<Call(1, event, model, envelopes[1], x, 1)>>
          /\ outcome = Degenerate(parse(event, model, envelopes[1], x, 1))

C4_Witness ==
    /\ Chained /\ Done /\ NumEnvelopes = 1 /\ Len(calls) = 1
    /\ IsReturn(calls[1].result)
    /\ isinstance_List(calls[1].result[2])
    /\ Len(calls[1].result[2][2]) = 2
    /\ outcome = calls[1].result

\* Number of calls made at a stage, and the size of the working set the
\* stage is entered with.
CallsAt(s) == Cardinality({j \in 1..Len(calls) : calls[j].stage = s})

RECURSIVE Produced(_, _)
Produced(s, j) ==
    IF j > Len(calls) THEN 0
    ELSE (IF calls[j].stage = s /\ IsReturn(calls[j].result)
          THEN (IF isinstance_List(calls[j].result[2])
                THEN Len(calls[j].result[2][2]) ELSE 1)
          ELSE 0) + Produced(s, j + 1)

WorkingSetSize(s) == IF s = 1 THEN 1 ELSE Produced(s - 1, 1)

C6_EmptyChainRaisesChaining ==
    (Chained /\ Done /\ NumEnvelopes = 0)
    => outcome = Raise("InvalidEnvelopeChaining")

\* C7: when parse uses a model argument that is not a model, the error it
\* reports is InvalidModelTypeError.
C7_NonModelRaisesModelError ==
    (/\ op = "parse" /\ Done /\ model = "NotAModel"
     /\ envelopes[1] # "NoParse"
     /\ Raises(calls[1].inner, "AttributeError"))
    => outcome = Raise("InvalidModelTypeError")

\* C8: a ValidationError raised by the model or by an envelope in any call
\* ends the run there and is what parse and chained_parse raise.
C8_ValidationErrorPropagates ==
    \A j \in 1..Len(calls) :
        Raises(calls[j].inner, "ValidationError")
        => /\ j = Len(calls)
           /\ Done
           /\ outcome = Raise("ValidationError")

C8_Witness ==
    /\ Chained /\ Done /\ Len(calls) = 3
    /\ calls[3].stage = 2
    /\ Raises(calls[3].inner, "ValidationError")
    /\ outcome = Raise("ValidationError")

\* C9: the base case builds its aggregate per event: a sequence result
\* contributes its elements, a single result contributes itself.
C9_BaseCaseFlattensPerEvent ==
    (base # None /\ Len(acc) >= 1)
    => base = Return(List(PerEvent(acc)))

\* C10: zero fan-out is no error: when every call returned and every
\* non-final result was a RawEvent or a (possibly empty) sequence of
\* RawEvents, chained_parse returns.
C10_ZeroFanOutReturns ==
    (/\ Chained /\ Done /\ NumEnvelopes >= 1
     /\ \A j \in 1..Len(calls) :
           /\ IsReturn(calls[j].result)
           /\ calls[j].stage < NumEnvelopes => RawShape(calls[j].result[2])
     /\ \E j \in 1..Len(calls) : calls[j].result = Return(List(<<>>)))
    => IsReturn(outcome)

====
